---- MODULE Spec2Model ----
(***************************************************************************)
(* Model of the two units of the repository:                               *)
(*   - lambda/lambda_function.py: lambda_handler, the SQS-to-SES adapter   *)
(*   - lambda/sqs-email-sender/utils/otp.py: generate_otp and              *)
(*     create_otp_record                                                   *)
(*                                                                         *)
(* Python values are records [t, v, items]: t is the Python type name, v   *)
(* the lexeme of a scalar, items the members of a list or dict.  A message *)
(* body is the sequence of JSON tokens of its text; json_loads parses it.  *)
(* The parser covers bodies of nesting depth one (an object or an array of *)
(* scalars), which is the shape of the queue message.                      *)
(***************************************************************************)
EXTENDS Integers, Sequences, FiniteSets, TLC

\* ------------------------------------------------------------------ bounds
\* longest batch of one invocation (specification Spec)
MaxBatch == 2
\* longest batches of two concurrent invocations (specification SpecConc): of
\* the first and of the second
MaxConcBatch == 2
MaxConcBatchOther == 1
\* the clock runs from 0 to MaxClock seconds
MaxClock == 2
\* longest time, in seconds, one call of create_otp_record takes
MaxCallTime == 1
\* generate_otp is called with every length from 0 to MaxLength
MaxLength == 7
\* number of states of the random generator
RngModulus == 10

VARIABLES
    invs,      \* the invocations of lambda_handler in this run
    event,     \* event[i]: the argument of invocation i
    pc,        \* pc[i]: "start", "loop", "send", "done" or "raised"
    idx,       \* idx[i]: position in the batch of the record being handled
    local,     \* local[i]: the arguments built for ses.send_email
    stdout,    \* stdout[i]: the per-message lines printed, with their position
    result,    \* result[i]: the value returned to the caller
    sesCalls,  \* every ses.send_email call made, in the order made
    clock,     \* the system clock, in seconds
    rng,       \* the state of the random module's generator
    lastCall   \* the last call of an otp.py function: its name, the length
               \* it generated a code of, and the value it returned

lambdaVars == <<invs, event, pc, idx, local, stdout, result, sesCalls>>
otpVars == <<clock, rng, lastCall>>
vars == <<invs, event, pc, idx, local, stdout, result, sesCalls,
          clock, rng, lastCall>>

\* ------------------------------------------------------------ Python values
PyStr(s) == [t |-> "str", v |-> s, items |-> <<>>]
PyInt(s) == [t |-> "int", v |-> s, items |-> <<>>]
PyBool(s) == [t |-> "bool", v |-> s, items |-> <<>>]
PyNone == [t |-> "NoneType", v |-> "None", items |-> <<>>]
PyList(xs) == [t |-> "list", v |-> "", items |-> xs]
PyDict(kvs) == [t |-> "dict", v |-> "", items |-> kvs]

\* bool(x) as `not to_email` computes it
Truthy_onlyNone(x) == x.t # "NoneType"

Truthy(x) ==
    CASE x.t = "str" -> x.v # ""
      [] x.t = "int" -> x.v # "0"
      [] x.t = "bool" -> x.v = "true"
      [] x.t = "NoneType" -> FALSE
      [] OTHER -> Len(x.items) > 0

\* d.get(key, default): the value of the last member named key
dict_get_or(d, key, default) ==
    LET hits == {j \in 1..Len(d.items) : d.items[j][1] = key /\ Truthy(d.items[j][2])}
    IN IF hits = {} THEN default
       ELSE d.items[CHOOSE j \in hits : \A h \in hits : h <= j][2]

dict_get(d, key, default) ==
    LET hits == {j \in 1..Len(d.items) : d.items[j][1] = key}
    IN IF hits = {} THEN default
       ELSE d.items[CHOOSE j \in hits : \A h \in hits : h <= j][2]

\* ------------------------------------------------------------------- json
Tok(k, v) == [k |-> k, v |-> v]
LBrace == Tok("{", "")
RBrace == Tok("}", "")
LBracket == Tok("[", "")
RBracket == Tok("]", "")
Colon == Tok(":", "")
Comma == Tok(",", "")
TStr(s) == Tok("str", s)
TNum(s) == Tok("num", s)
TNull == Tok("null", "null")
TTrue == Tok("bool", "true")
TBad == Tok("bad", "not json")

IsScalarTok(tok) == tok.k \in {"str", "num", "null", "bool"}

ScalarValue(tok) ==
    CASE tok.k = "str" -> PyStr(tok.v)
      [] tok.k = "num" -> PyInt(tok.v)
      [] tok.k = "bool" -> PyBool(tok.v)
      [] OTHER -> PyNone

Parsed(val) == [ok |-> TRUE, val |-> val]
JSONDecodeError == [ok |-> FALSE, val |-> PyNone]

\* the members between the braces: str : scalar (, str : scalar)*
ParseObject(inner) ==
    IF Len(inner) = 0 THEN Parsed(PyDict(<<>>))
    ELSE IF /\ Len(inner) % 4 = 3
            /\ \A p \in 1..Len(inner) :
                CASE p % 4 = 1 -> inner[p].k = "str"
                  [] p % 4 = 2 -> inner[p] = Colon
                  [] p % 4 = 3 -> IsScalarTok(inner[p])
                  [] OTHER -> inner[p] = Comma
         THEN Parsed(PyDict([j \in 1..((Len(inner) + 1) \div 4) |->
                               <<inner[4 * j - 3].v, ScalarValue(inner[4 * j - 1])>>]))
         ELSE JSONDecodeError

\* the elements between the brackets: scalar (, scalar)*
ParseArray(inner) ==
    IF Len(inner) = 0 THEN Parsed(PyList(<<>>))
    ELSE IF /\ Len(inner) % 2 = 1
            /\ \A p \in 1..Len(inner) :
                IF p % 2 = 1 THEN IsScalarTok(inner[p]) ELSE inner[p] = Comma
         THEN Parsed(PyList([j \in 1..((Len(inner) + 1) \div 2) |->
                               ScalarValue(inner[2 * j - 1])]))
         ELSE JSONDecodeError

json_loads(toks) ==
    IF Len(toks) = 0 THEN JSONDecodeError
    ELSE IF Len(toks) = 1
         THEN IF IsScalarTok(toks[1]) THEN Parsed(ScalarValue(toks[1]))
              ELSE JSONDecodeError
    ELSE IF toks[1] = LBrace /\ toks[Len(toks)] = RBrace
         THEN ParseObject(SubSeq(toks, 2, Len(toks) - 1))
    ELSE IF toks[1] = LBracket /\ toks[Len(toks)] = RBracket
         THEN ParseArray(SubSeq(toks, 2, Len(toks) - 1))
    ELSE JSONDecodeError

\* json.dumps of a str (a sequence of characters): quoted, with " and \ escaped
RECURSIVE EscapeChars(_)
EscapeChars(s) ==
    IF s = <<>> THEN <<>>
    ELSE (IF Head(s) \in {"\"", "\\"} THEN <<"\\", Head(s)>> ELSE <<Head(s)>>)
         \o EscapeChars(Tail(s))

json_dumps_unquoted(s) == s

json_dumps(s) == <<"\"">> \o EscapeChars(s) \o <<"\"">>

\* --------------------------------------------------------- lambda_handler
SENDER == "mitrashubhojit2005@gmail.com"
DEFAULT_SUBJECT == PyStr("Test Email from AWS Lambda (Python)")
DEFAULT_BODY == PyStr("Hello! This is a test email from Lambda via SES (Python).")

\* the characters of the sentence passed to json.dumps in the return statement
ALL_EMAILS_PROCESSED ==
    <<"A", "l", "l", " ", "e", "m", "a", "i", "l", "s", " ",
      "p", "r", "o", "c", "e", "s", "s", "e", "d", ".">>

NoResult == [statusCode |-> 0, body |-> <<>>]

Response == [statusCode |-> 200, body |-> json_dumps(ALL_EMAILS_PROCESSED)]

\* the keyword arguments of ses.send_email
SendEmailParams(to_email, subject, body) ==
    [Source |-> SENDER,
     Destination |-> [ToAddresses |-> <<to_email>>],
     Message |-> [Subject |-> [Data |-> subject],
                  Body |-> [Text |-> [Data |-> body]]]]

NoParams ==
    [Source |-> "",
     Destination |-> [ToAddresses |-> <<>>],
     Message |-> [Subject |-> [Data |-> PyNone],
                  Body |-> [Text |-> [Data |-> PyNone]]]]

Raise(exc) == [kind |-> "raise", exc |-> exc, params |-> NoParams]
Continue == [kind |-> "continue", exc |-> "", params |-> NoParams]
Send(params) == [kind |-> "send", exc |-> "", params |-> params]

\* the try body up to the send call: parse, extract, check the address
ExtractMessage(record) ==
    IF ~record.hasBody THEN Raise("KeyError")
    ELSE LET parsed == json_loads(record.body) IN
         IF ~parsed.ok THEN Raise("JSONDecodeError")
         ELSE IF parsed.val.t # "dict" THEN Raise("AttributeError")
         ELSE LET message_body == parsed.val
                  to_email == dict_get(message_body, "email", PyNone)
                  subject == dict_get(message_body, "subject", DEFAULT_SUBJECT)
                  body == dict_get(message_body, "message", DEFAULT_BODY)
              IN IF ~Truthy(to_email) THEN Continue
                 ELSE Send(SendEmailParams(to_email, subject, body))

\* the classes `except Exception` catches
ExceptionSubclasses ==
    {"KeyError", "JSONDecodeError", "AttributeError", "TypeError", "ClientError"}

Catches_onlyClientError(exc) == exc = "ClientError"

Catches(exc) == exc \in ExceptionSubclasses

\* event.get("Records", [])
Records(i) == IF event[i].hasRecords THEN event[i].Records ELSE <<>>

LoopDone_firstRecord(i) == idx[i] > 1 \/ idx[i] > Len(Records(i))

\* the for loop is exhausted
LoopDone(i) == idx[i] > Len(Records(i))

ExceptNext_break(i) == Len(Records(i)) + 1

ExceptNext_retry(i) == idx[i]

\* after the except block the loop goes on with the next record
ExceptNext(i) == idx[i] + 1

Local_global(i) == local[CHOOSE j \in invs : \A k \in invs : j <= k]

\* the arguments invocation i built for its send call
Local(i) == local[i]

Line(i, text) == [pos |-> idx[i], line |-> text]

\* lines 8-11: print the event, start the loop
Start(i) ==
    /\ pc[i] = "start"
    /\ pc' = [pc EXCEPT ![i] = "loop"]
    /\ idx' = [idx EXCEPT ![i] = 1]
    /\ UNCHANGED <<otpVars, invs, event, local, stdout, result, sesCalls>>

\* an exception raised in the try body at record idx[i]
Except(i, exc) ==
    IF Catches(exc)
    THEN /\ stdout' = [stdout EXCEPT ![i] = Append(@, Line(i, "Failed to send email"))]
         /\ idx' = [idx EXCEPT ![i] = ExceptNext(i)]
         /\ pc' = [pc EXCEPT ![i] = "loop"]
    ELSE /\ pc' = [pc EXCEPT ![i] = "raised"]
         /\ UNCHANGED <<stdout, idx>>

\* lines 14-20 raise: no body, a body that does not parse, a body with no get
ParseFail(i) ==
    /\ pc[i] = "loop" /\ ~LoopDone(i)
    /\ LET r == ExtractMessage(Records(i)[idx[i]]) IN
        /\ r.kind = "raise"
        /\ Except(i, r.exc)
    /\ UNCHANGED <<otpVars, invs, event, local, result, sesCalls>>

\* lines 22-24: no address, skip the message
SkipMissing(i) ==
    /\ pc[i] = "loop" /\ ~LoopDone(i)
    /\ ExtractMessage(Records(i)[idx[i]]).kind = "continue"
    /\ stdout' = [stdout EXCEPT ![i] = Append(@, Line(i, "Missing email address"))]
    /\ idx' = [idx EXCEPT ![i] = idx[i] + 1]
    /\ UNCHANGED <<otpVars, invs, event, pc, local, result, sesCalls>>

\* lines 14-22 pass: the arguments of the send call are ready
PrepareSend(i) ==
    /\ pc[i] = "loop" /\ ~LoopDone(i)
    /\ LET r == ExtractMessage(Records(i)[idx[i]]) IN
        /\ r.kind = "send"
        /\ local' = [local EXCEPT ![i] = r.params]
    /\ pc' = [pc EXCEPT ![i] = "send"]
    /\ UNCHANGED <<otpVars, invs, event, idx, stdout, result, sesCalls>>

Call(i, outcome) ==
    [inv |-> i, pos |-> idx[i], params |-> Local(i), outcome |-> outcome]

\* lines 27-40: the send call returns a MessageId
SendOk(i) ==
    /\ pc[i] = "send"
    /\ sesCalls' = Append(sesCalls, Call(i, "MessageId"))
    /\ stdout' = [stdout EXCEPT ![i] = Append(@, Line(i, "Email sent!"))]
    /\ idx' = [idx EXCEPT ![i] = idx[i] + 1]
    /\ pc' = [pc EXCEPT ![i] = "loop"]
    /\ UNCHANGED <<otpVars, invs, event, local, result>>

\* lines 27-38, 42-43: the send call raises
SendRaise(i) ==
    /\ pc[i] = "send"
    /\ sesCalls' = Append(sesCalls, Call(i, "ClientError"))
    /\ Except(i, "ClientError")
    /\ UNCHANGED <<otpVars, invs, event, local, result>>

\* lines 45-48
Return(i) ==
    /\ pc[i] = "loop" /\ LoopDone(i)
    /\ result' = [result EXCEPT ![i] = Response]
    /\ pc' = [pc EXCEPT ![i] = "done"]
    /\ UNCHANGED <<otpVars, invs, event, idx, local, stdout, sesCalls>>

Next ==
    \/ \E i \in invs : Start(i)
    \/ \E i \in invs : ParseFail(i)
    \/ \E i \in invs : SkipMissing(i)
    \/ \E i \in invs : PrepareSend(i)
    \/ \E i \in invs : SendOk(i)
    \/ \E i \in invs : SendRaise(i)
    \/ \E i \in invs : Return(i)

\* ------------------------------------------------------------- the inputs
Rec(body) == [hasBody |-> TRUE, body |-> body]
NoBodyRecord == [hasBody |-> FALSE, body |-> <<>>]

Member(key, tok) == <<TStr(key), Colon, tok>>
Obj1(m1) == <<LBrace>> \o m1 \o <<RBrace>>
Obj2(m1, m2) == <<LBrace>> \o m1 \o <<Comma>> \o m2 \o <<RBrace>>
Obj3(m1, m2, m3) ==
    <<LBrace>> \o m1 \o <<Comma>> \o m2 \o <<Comma>> \o m3 \o <<RBrace>>

FullMessage ==
    Rec(Obj3(Member("email", TStr("a@x.com")), Member("subject", TStr("Hi")),
             Member("message", TStr("Hello"))))
OnlyEmail == Rec(Obj1(Member("email", TStr("b@x.com"))))
EmptySubject ==
    Rec(Obj2(Member("email", TStr("c@x.com")), Member("subject", TStr(""))))
NullMessage ==
    Rec(Obj2(Member("email", TStr("d@x.com")), Member("message", TNull)))
NoEmail == Rec(Obj1(Member("subject", TStr("No email"))))
EmptyEmail == Rec(Obj1(Member("email", TStr(""))))
NullEmail == Rec(Obj1(Member("email", TNull)))
ZeroEmail == Rec(Obj1(Member("email", TNum("0"))))
OverriddenEmail ==
    Rec(Obj2(Member("email", TStr("a@x.com")), Member("email", TStr(""))))
EmptyObject == Rec(<<LBrace, RBrace>>)
NotJson == Rec(<<TBad>>)
EmptyBody == Rec(<<>>)
MissingColon == Rec(<<LBrace, TStr("email"), TStr("a@x.com"), RBrace>>)
TrailingComma == Rec(<<LBrace>> \o Member("email", TStr("a@x.com")) \o <<Comma, RBrace>>)
JsonString == Rec(<<TStr("a@x.com")>>)
JsonNull == Rec(<<TNull>>)
JsonArray == Rec(<<LBracket, TStr("a@x.com"), RBracket>>)

SampleRecords ==
    {FullMessage, OnlyEmail, EmptySubject, NullMessage, NoEmail, EmptyEmail,
     NullEmail, ZeroEmail, OverriddenEmail, EmptyObject, NotJson, EmptyBody,
     MissingColon, TrailingComma, JsonString, JsonNull, JsonArray, NoBodyRecord}

ConcRecords == {FullMessage, OnlyEmail, NoEmail, NotJson}

Batches(S, n) == UNION {[1..k -> S] : k \in 0..n}

Events(S, n) ==
    {[hasRecords |-> TRUE, Records |-> b] : b \in Batches(S, n)}
    \cup {[hasRecords |-> FALSE, Records |-> <<>>]}

\* ------------------------------------------------------------------ otp.py
\* a timedelta, in seconds
timedelta(hours, minutes) == hours * 3600 + minutes * 60

\* timezone(timedelta(hours=5, minutes=30)): the offset from UTC
IST == timedelta(5, 30)

\* datetime.now(tz) at clock reading t (seconds, UTC): an aware datetime, the
\* wall time in tz and the offset of tz
datetime_now(tz, t) == [wall |-> t + tz, utcoffset |-> tz]

\* datetime + timedelta: the wall time moves, the zone stays
datetime_add(d, delta) == [d EXCEPT !.wall = @ + delta]

\* aware datetime - aware datetime: the difference of the UTC instants
datetime_sub(a, b) == (a.wall - a.utcoffset) - (b.wall - b.utcoffset)

\* string.digits
string_digits == <<"0", "1", "2", "3", "4", "5", "6", "7", "8", "9">>
string_hexdigits == string_digits \o <<"a", "b", "c", "d", "e", "f">>

\* the generator's next state (a linear congruential step stands for the
\* Mersenne Twister's)
random_next(s) == (7 * s + 3) % RngModulus

\* floor(random() * n), random() being s / RngModulus in [0, 1)
random_index(s, n) == (s * n) \div RngModulus

\* random.choices(population, k=k): k independent draws, as one-character strings
RECURSIVE random_choices(_, _, _)
random_choices(population, k, s) ==
    IF k <= 0 THEN <<>>
    ELSE <<(<<population[random_index(s, Len(population)) + 1]>>)>>
         \o random_choices(population, k - 1, random_next(s))

\* the generator's state after k draws
RECURSIVE random_after(_, _)
random_after(k, s) == IF k <= 0 THEN s ELSE random_after(k - 1, random_next(s))

\* ''.join(strings)
RECURSIVE join(_)
join(strings) ==
    IF strings = <<>> THEN <<>> ELSE Head(strings) \o join(Tail(strings))

DEFAULT_LENGTH == 6

generate_otp_hex(length, s) == join(random_choices(string_hexdigits, length, s))

generate_otp(length, s) == join(random_choices(string_digits, length, s))

create_otp_record_two_readings(user_id, otp_type, uuid4, s, t, t_later) ==
    [id |-> uuid4, user_id |-> user_id, code |-> generate_otp(DEFAULT_LENGTH, s),
     type |-> otp_type,
     expires_at |-> datetime_add(datetime_now(IST, t), timedelta(0, 10)),
     created_at |-> datetime_now(IST, t_later)]

\* uuid4: the fresh identifier, s: the generator's state, t: the clock when
\* line 15 reads it, t_later: the clock when the call returns
create_otp_record(user_id, otp_type, uuid4, s, t, t_later) ==
    LET code == generate_otp(DEFAULT_LENGTH, s)
        otp_id == uuid4
        now_ist == datetime_now(IST, t)
        expires_at == datetime_add(now_ist, timedelta(0, 10))
        created_at == now_ist
    IN [id |-> otp_id, user_id |-> user_id, code |-> code, type |-> otp_type,
        expires_at |-> expires_at, created_at |-> created_at]

UserIds == {"user-1", "user-2"}
OtpTypes == {"email_verification", "password_reset"}
Uuids == {"uuid-a", "uuid-b"}

NoCall == [fn |-> "none", length |-> 0, ret |-> <<>>]

\* time passes
Tick ==
    /\ clock < MaxClock
    /\ clock' = clock + 1
    /\ UNCHANGED <<lambdaVars, rng, lastCall>>

\* a call generate_otp(length)
GenerateOtp ==
    /\ \E length \in 0..MaxLength :
        /\ lastCall' = [fn |-> "generate_otp", length |-> length,
                        ret |-> generate_otp(length, rng)]
        /\ rng' = random_after(length, rng)
    /\ UNCHANGED <<lambdaVars, clock>>

\* a call create_otp_record(user_id, otp_type), taking d seconds
CreateOtpRecord ==
    /\ \E user_id \in UserIds, otp_type \in OtpTypes, uuid4 \in Uuids,
          d \in 0..MaxCallTime :
        /\ clock + d <= MaxClock
        /\ lastCall' = [fn |-> "create_otp_record", length |-> DEFAULT_LENGTH,
                        ret |-> create_otp_record(user_id, otp_type, uuid4, rng,
                                                  clock, clock + d)]
        /\ clock' = clock + d
    /\ rng' = random_after(DEFAULT_LENGTH, rng)
    /\ UNCHANGED lambdaVars

NextOtp ==
    \/ Tick
    \/ GenerateOtp
    \/ CreateOtpRecord

InitOtpIdle ==
    /\ clock = 0
    /\ rng = 0
    /\ lastCall = NoCall

InitLambdaIdle ==
    /\ invs = {}
    /\ event = <<>>
    /\ pc = <<>>
    /\ idx = <<>>
    /\ local = <<>>
    /\ stdout = <<>>
    /\ result = <<>>
    /\ sesCalls = <<>>

\* the otp.py functions, called in any order from any generator state
InitOtp ==
    /\ clock = 0
    /\ rng \in 0..(RngModulus - 1)
    /\ lastCall = NoCall
    /\ InitLambdaIdle

SpecOtp == InitOtp /\ [][NextOtp]_vars

InitInvocations(I, E) ==
    /\ invs = I
    /\ event \in E
    /\ pc = [i \in I |-> "start"]
    /\ idx = [i \in I |-> 0]
    /\ local = [i \in I |-> NoParams]
    /\ stdout = [i \in I |-> <<>>]
    /\ result = [i \in I |-> NoResult]
    /\ sesCalls = <<>>

\* one invocation on any batch of the sample records
Init == InitInvocations({1}, [{1} -> Events(SampleRecords, MaxBatch)]) /\ InitOtpIdle

Spec == Init /\ [][Next]_vars

\* two concurrent invocations
ConcEvents ==
    {e \in [{1, 2} -> Events(ConcRecords, MaxConcBatch)] :
        Len(e[2].Records) <= MaxConcBatchOther}

InitConc == InitInvocations({1, 2}, ConcEvents) /\ InitOtpIdle

SpecConc == InitConc /\ [][Next]_vars

\* ------------------------------------------------------------- the claims
\* What a record is, read off its body independently of the handler.
IsMessage(record) ==
    /\ record.hasBody
    /\ json_loads(record.body).ok
    /\ json_loads(record.body).val.t = "dict"

Members(record) == json_loads(record.body).val.items

HasField(record, key) == \E j \in 1..Len(Members(record)) : Members(record)[j][1] = key

Field(record, key) ==
    LET m == Members(record)
    IN m[CHOOSE j \in 1..Len(m) :
            /\ m[j][1] = key
            /\ \A h \in 1..Len(m) : m[h][1] = key => h <= j][2]

Malformed(record) == ~IsMessage(record)

EmailAbsentOrEmpty(record) ==
    /\ IsMessage(record)
    /\ \/ ~HasField(record, "email")
       \/ Field(record, "email").t = "NoneType"
       \/ Field(record, "email") = PyStr("")

EmailValid(record) ==
    /\ IsMessage(record)
    /\ HasField(record, "email")
    /\ Field(record, "email").t = "str"
    /\ Field(record, "email").v # ""

Positions(i) == 1..Len(Records(i))

CallsOf(i, p) ==
    {k \in 1..Len(sesCalls) : sesCalls[k].inv = i /\ sesCalls[k].pos = p}

\* the handler has printed the outcome of the message at position p
Processed(i, p) == \E k \in 1..Len(stdout[i]) : stdout[i][k].pos = p

Printed(i, p, text) ==
    \E k \in 1..Len(stdout[i]) : stdout[i][k] = [pos |-> p, line |-> text]

\* every message after position p was handled: its outcome is printed, and a
\* message with a valid address was passed to the send call
LaterProcessed(i, p) ==
    \A q \in Positions(i) :
        q > p => /\ Processed(i, q)
                 /\ EmailValid(Records(i)[q]) => CallsOf(i, q) # {}

\* C1: lambda_handler never raises to its caller, and the result it returns
\* has statusCode 200, whatever the batch and whatever happened to each message.
C1_NeverRaisesStatus200 ==
    \A i \in invs :
        /\ pc[i] # "raised"
        /\ pc[i] = "done" => result[i].statusCode = 200

C1_Witness ==
    /\ pc[1] = "done"
    /\ result[1].statusCode = 200
    /\ Printed(1, 1, "Failed to send email")
    /\ \E k \in 1..Len(sesCalls) : sesCalls[k].outcome = "ClientError"
    /\ Malformed(Records(1)[1])

\* C2 as stated: the returned body is the 21 characters of the sentence.
C2_BodyIsSentence ==
    \A i \in invs :
        pc[i] = "done" =>
            /\ result[i] = [statusCode |-> 200, body |-> ALL_EMAILS_PROCESSED]
            /\ Len(result[i].body) = 21

\* C2 amended: the returned value is statusCode 200 with body the JSON encoding
\* of the sentence: its 21 characters between two double quotes, 23 characters.
C2_BodyIsJsonEncodedSentence ==
    \A i \in invs :
        pc[i] = "done" =>
            /\ result[i].statusCode = 200
            /\ result[i].body = <<"\"">> \o ALL_EMAILS_PROCESSED \o <<"\"">>
            /\ Len(result[i].body) = 23

C2_Witness ==
    /\ pc[1] = "done"
    /\ Len(Records(1)) = MaxBatch
    /\ \A p \in Positions(1) : Printed(1, p, "Failed to send email")
    /\ Len(result[1].body) = 23

\* C3: a message with a valid email gets exactly one send call, from the fixed
\* sender to [email], with the message's subject and text or, where the
\* message has none, the default subject and the default text.
C3_OneSendWithParams ==
    \A i \in invs : \A p \in Positions(i) :
        LET record == Records(i)[p] IN
        EmailValid(record) =>
            /\ Cardinality(CallsOf(i, p)) <= 1
            /\ (idx[i] > p \/ pc[i] = "done") => Cardinality(CallsOf(i, p)) = 1
            /\ \A k \in CallsOf(i, p) :
                /\ sesCalls[k].params.Source = "mitrashubhojit2005@gmail.com"
                /\ sesCalls[k].params.Destination.ToAddresses
                      = <<Field(record, "email")>>
                /\ sesCalls[k].params.Message.Subject.Data
                      = IF HasField(record, "subject") THEN Field(record, "subject")
                        ELSE PyStr("Test Email from AWS Lambda (Python)")
                /\ sesCalls[k].params.Message.Body.Text.Data
                      = IF HasField(record, "message") THEN Field(record, "message")
                        ELSE PyStr("Hello! This is a test email from Lambda via SES (Python).")

C3_Witness ==
    /\ pc[1] = "done"
    /\ Records(1) = <<EmptySubject, OnlyEmail>>
    /\ Len(sesCalls) = 2
    /\ sesCalls[1].params.Message.Subject.Data = PyStr("")
    /\ sesCalls[2].params.Message.Subject.Data
          = PyStr("Test Email from AWS Lambda (Python)")

\* C4: a message whose email is absent or empty gets no send call, and the
\* messages after it are still processed.
C4_MissingEmailSkipped ==
    \A i \in invs : \A p \in Positions(i) :
        EmailAbsentOrEmpty(Records(i)[p]) =>
            /\ CallsOf(i, p) = {}
            /\ pc[i] # "raised"
            /\ idx[i] > p => Printed(i, p, "Missing email address")
            /\ pc[i] = "done" => LaterProcessed(i, p)

C4_Witness ==
    /\ pc[1] = "done"
    /\ Records(1) = <<EmptyEmail, FullMessage>>
    /\ Printed(1, 1, "Missing email address")
    /\ CallsOf(1, 1) = {}
    /\ CallsOf(1, 2) # {}

\* C5: a message with a malformed body gets no send call, its failure is
\* caught, and the messages after it are still processed.
C5_MalformedCaught ==
    \A i \in invs : \A p \in Positions(i) :
        Malformed(Records(i)[p]) =>
            /\ CallsOf(i, p) = {}
            /\ pc[i] # "raised"
            /\ idx[i] > p => Printed(i, p, "Failed to send email")
            /\ pc[i] = "done" => LaterProcessed(i, p)

C5_Witness ==
    /\ pc[1] = "done"
    /\ Records(1) = <<JsonArray, FullMessage>>
    /\ Printed(1, 1, "Failed to send email")
    /\ CallsOf(1, 1) = {}
    /\ CallsOf(1, 2) # {}

\* C6: when the send call of a message raises, that message gets no second
\* send attempt, and the messages after it are still processed and sent.
C6_SendFailureNoRetry ==
    \A i \in invs : \A p \in Positions(i) :
        (\E k \in CallsOf(i, p) : sesCalls[k].outcome = "ClientError") =>
            /\ Cardinality(CallsOf(i, p)) = 1
            /\ pc[i] # "raised"
            /\ idx[i] > p => Printed(i, p, "Failed to send email")
            /\ pc[i] = "done" => LaterProcessed(i, p)

C6_Witness ==
    /\ pc[1] = "done"
    /\ Records(1) = <<FullMessage, OnlyEmail>>
    /\ Len(sesCalls) = 2
    /\ sesCalls[1].outcome = "ClientError"
    /\ sesCalls[2].pos = 2

\* C9: one invocation handles its messages one after the other in batch
\* order: send calls are made in the order of the positions, a message is
\* started only when all before it have their outcome, and the result is
\* returned only after the last message has its outcome.
C9_Sequential ==
    \A i \in invs :
        /\ \A a, b \in 1..Len(sesCalls) :
              (a < b /\ sesCalls[a].inv = i /\ sesCalls[b].inv = i)
                  => sesCalls[a].pos < sesCalls[b].pos
        /\ \A k \in 1..Len(stdout[i]) : stdout[i][k].pos = k
        /\ pc[i] \in {"loop", "send"} => Len(stdout[i]) = idx[i] - 1
        /\ pc[i] = "send" => idx[i] \in Positions(i)
        /\ pc[i] = "done" => Len(stdout[i]) = Len(Records(i))
        /\ result[i] # NoResult => pc[i] = "done"

C9_Witness ==
    /\ pc[1] = "send"
    /\ idx[1] = 2
    /\ Len(stdout[1]) = 1
    /\ Len(sesCalls) = 1
    /\ result[1] = NoResult

\* the send calls invocation i makes when it runs alone, in order
RECURSIVE ExpectedParams(_)
ExpectedParams(records) ==
    IF records = <<>> THEN <<>>
    ELSE (IF ExtractMessage(Head(records)).kind = "send"
          THEN <<ExtractMessage(Head(records)).params>> ELSE <<>>)
         \o ExpectedParams(Tail(records))

RECURSIVE ParamsOf(_, _)
ParamsOf(i, calls) ==
    IF calls = <<>> THEN <<>>
    ELSE (IF Head(calls).inv = i THEN <<Head(calls).params>> ELSE <<>>)
         \o ParamsOf(i, Tail(calls))

IsPrefix(a, b) == Len(a) <= Len(b) /\ SubSeq(b, 1, Len(a)) = a

\* C10: with two invocations interleaved, each makes the send calls it makes
\* alone (same messages, same arguments, same order, none twice, none
\* dropped) and returns the result it returns alone.
C10_InvocationsIndependent ==
    \A i \in invs :
        /\ IsPrefix(ParamsOf(i, sesCalls), ExpectedParams(Records(i)))
        /\ pc[i] # "raised"
        /\ pc[i] = "done" =>
            /\ ParamsOf(i, sesCalls) = ExpectedParams(Records(i))
            /\ result[i] = [statusCode |-> 200,
                            body |-> <<"\"">> \o ALL_EMAILS_PROCESSED \o <<"\"">>]

C10_Witness ==
    /\ invs = {1, 2}
    /\ pc[1] = "done" /\ pc[2] = "done"
    /\ Len(sesCalls) = 3
    /\ sesCalls[1].inv = 1 /\ sesCalls[2].inv = 2 /\ sesCalls[3].inv = 1
    /\ sesCalls[1].params # sesCalls[2].params

DigitChars == {"0", "1", "2", "3", "4", "5", "6", "7", "8", "9"}

\* C7: a record built by create_otp_record expires exactly 10 minutes after
\* it was created, both times being one reading of the clock at +5:30.
C7_ExpiresTenMinutesAfterCreated ==
    lastCall.fn = "create_otp_record" =>
        LET r == lastCall.ret IN
        /\ datetime_sub(r.expires_at, r.created_at) = 10 * 60
        /\ r.expires_at.wall - r.created_at.wall = 10 * 60
        /\ r.created_at.utcoffset = 5 * 3600 + 30 * 60
        /\ r.expires_at.utcoffset = 5 * 3600 + 30 * 60
        /\ r.created_at.wall - r.created_at.utcoffset \in 0..clock

C7_Witness ==
    /\ lastCall.fn = "create_otp_record"
    /\ lastCall.ret.created_at.wall - lastCall.ret.created_at.utcoffset < clock
    /\ lastCall.ret.created_at.wall - lastCall.ret.created_at.utcoffset > 0
    /\ lastCall.ret.type = "password_reset"

\* C8: generate_otp(length) returns exactly length characters, all of them
\* digits, and the code of a record has exactly 6 digits.
C8_CodeIsDigitsOfLength ==
    /\ lastCall.fn = "generate_otp" =>
        /\ Len(lastCall.ret) = lastCall.length
        /\ \A k \in 1..Len(lastCall.ret) : lastCall.ret[k] \in DigitChars
    /\ lastCall.fn = "create_otp_record" =>
        /\ Len(lastCall.ret.code) = 6
        /\ \A k \in 1..6 : lastCall.ret.code[k] \in DigitChars

C8_Witness ==
    /\ lastCall.fn = "generate_otp"
    /\ lastCall.length = MaxLength
    /\ Len(lastCall.ret) = MaxLength
    /\ lastCall.ret[1] = "9"

====
